---- MODULE Spec2Model ----
(***************************************************************************)
(* norge-data: the query layer over the two loaded tables (fylkerData,     *)
(* kommunerData).  Strings are sequences of one-character strings, so that *)
(* toLowerCase, padStart, replace(/^0+/, ''), startsWith and includes are  *)
(* computed the way the JavaScript code computes them.  A returned record  *)
(* is a reference to the object stored in the table (its index); a         *)
(* returned array is a fresh sequence of such references.                  *)
(***************************************************************************)
EXTENDS Integers, Sequences, FiniteSets, TLC

VARIABLES fylkerData, kommunerData, loadedFylker, loadedKommuner, call, ret, writes

vars == <<fylkerData, kommunerData, loadedFylker, loadedKommuner, call, ret, writes>>

(* ---------------------------- bounds ----------------------------------- *)
MaxFylker == 2
MaxKommuner == 2
MaxInputLen == 2
MaxNumber == 2
MaxWrites == 1

(* ---------------------------- strings ---------------------------------- *)
DigitChars == {"0", "1", "3"}

DigitVal(c) == CASE c = "0" -> 0 [] c = "1" -> 1 [] c = "2" -> 2 [] c = "3" -> 3
                 [] c = "4" -> 4 [] c = "5" -> 5 [] c = "6" -> 6 [] c = "7" -> 7
                 [] c = "8" -> 8 [] c = "9" -> 9

DigitChar(d) == CASE d = 0 -> "0" [] d = 1 -> "1" [] d = 2 -> "2" [] d = 3 -> "3"
                  [] d = 4 -> "4" [] d = 5 -> "5" [] d = 6 -> "6" [] d = 7 -> "7"
                  [] d = 8 -> "8" [] d = 9 -> "9"

\* String.prototype.toLowerCase on one character
LowerChar(c) == CASE c = "O" -> "o" [] c = "S" -> "s" [] c = "L" -> "l"
                  [] c = "A" -> "a" [] c = "B" -> "b" [] c = "N" -> "n"
                  [] OTHER -> c

toLowerCase(s) == [i \in 1..Len(s) |-> LowerChar(s[i])]

\* the regular expression /^0+/ replaced by '' drops only the zeros in front;
\* the variant below drops every zero of the string (a /0+/g pattern)
RECURSIVE stripAllZeros(_)
stripAllZeros(s) ==
  IF s = <<>> THEN <<>>
  ELSE IF Head(s) = "0" THEN stripAllZeros(Tail(s))
       ELSE <<Head(s)>> \o stripAllZeros(Tail(s))

RECURSIVE stripLeadingZeros(_)
stripLeadingZeros(s) ==
  IF s = <<>> THEN <<>>
  ELSE IF Head(s) = "0" THEN stripLeadingZeros(Tail(s))
       ELSE s

\* String.prototype.padStart(n, c) for a one-character filler c
padStart(s, n, c) ==
  IF Len(s) >= n THEN s
  ELSE [i \in 1..n |-> IF i <= n - Len(s) THEN c ELSE s[i - (n - Len(s))]]

\* String.prototype.startsWith
startsWith(s, p) == Len(p) <= Len(s) /\ SubSeq(s, 1, Len(p)) = p

\* String.prototype.includes
includes(s, t) == \E k \in 0..(Len(s) - Len(t)) : SubSeq(s, k + 1, k + Len(t)) = t

\* String(n) for a non-negative integer n: its decimal digits
RECURSIVE String(_)
String(n) == IF n < 10 THEN <<DigitChar(n)>>
             ELSE String(n \div 10) \o <<DigitChar(n % 10)>>

(* ---------------------------- numbers ---------------------------------- *)
\* a JavaScript number passed as a range bound: finite, or Infinity
Num(v) == [inf |-> FALSE, v |-> v]
Infinity == [inf |-> TRUE, v |-> 0]

\* a <= b on JavaScript numbers
Leq(a, b) == IF a.inf THEN b.inf ELSE (b.inf \/ a.v <= b.v)

(* ---------------------------- results ---------------------------------- *)
undefined == [kind |-> "undefined", table |-> "none", refs |-> <<>>]
RecordRef(t, i) == [kind |-> "record", table |-> t, refs |-> <<i>>]
ArrayOf(t, idx) == [kind |-> "array", table |-> t, refs |-> idx]

\* Array.prototype.find: the first element in order satisfying P, as a reference
find(t, arr, P(_)) ==
  IF \E i \in 1..Len(arr) : P(arr[i])
  THEN RecordRef(t, CHOOSE i \in 1..Len(arr) :
                      P(arr[i]) /\ \A j \in 1..(i - 1) : ~P(arr[j]))
  ELSE undefined

\* Array.prototype.filter: a new array of the elements satisfying P, in order
filter(t, arr, P(_)) ==
  ArrayOf(t, SelectSeq([i \in 1..Len(arr) |-> i], LAMBDA i : P(arr[i])))

(* ---------------------------- the tables -------------------------------- *)
\* Candidate records of fylker-2025.json and kommuner-2025.json.  The data
\* files hold one object per county / municipality with these fields; the
\* records below are chosen so that identifiers share digit subsequences and
\* names coincide up to letter case.  Populations and areas are small
\* integers (areas in whole units).
Fylke(id, name, url) == [f_id |-> id, f_name |-> name, f_url |-> url]

Kommune(id, name, nameNo, center, pop, area, lang, url) ==
  [k_id |-> id, k_name |-> name, k_name_no |-> nameNo, k_adm_center |-> center,
   k_population |-> pop, k_area |-> area, k_language |-> lang, k_url |-> url]

\* k_language values, in ASCII letters
Bokmaal == <<"B", "o", "k", "m", "a", "l">>
Nynorsk == <<"N", "y", "n", "o", "r", "s", "k">>

FylkePool ==
  { Fylke(<<"0", "3">>, <<"O", "s", "l", "o">>, "www.oslo.kommune.no"),
    Fylke(<<"3", "1">>, <<"O", "S", "L", "O">>, "www.ofk.no") }

KommunePool ==
  { Kommune(<<"0", "3", "0", "1">>, <<"O", "s", "l", "o">>, <<"O", "s", "l", "o">>,
            "Oslo", 1, 0, Bokmaal, "www.oslo.kommune.no"),
    Kommune(<<"3", "1", "0", "1">>, <<"O", "s">>, <<"O", "s">>,
            "Halden", 0, 1, Bokmaal, "www.halden.kommune.no"),
    Kommune(<<"1", "1", "3", "1">>, <<"S", "O", "L">>, <<"o", "s", "l", "o">>,
            "Sola", 1, 1, Nynorsk, "www.sola.kommune.no"),
    Kommune(<<"0", "0", "3", "1">>, <<"L", "o">>, <<"S", "o", "l">>,
            "Lo", 0, 0, Nynorsk, "www.lo.kommune.no") }

\* ordered sequences of at most n records of S with pairwise different id
\* (identifiers are unique in both data files)
Injective(q) == \A i, j \in 1..Len(q) : i # j => q[i] # q[j]
TablesOver(S, n) == UNION { {q \in [1..k -> S] : Injective(q)} : k \in 0..n }

(* ---------------------------- the queries ------------------------------ *)
getAllFylker == ArrayOf("fylker", [i \in 1..Len(fylkerData) |-> i])

getAllKommuner == ArrayOf("kommuner", [i \in 1..Len(kommunerData) |-> i])

getFylkeById(id) == find("fylker", fylkerData, LAMBDA fylke : fylke.f_id = id)

getFylkeByNameExact(name) ==
  find("fylker", fylkerData, LAMBDA fylke : fylke.f_name = name)

getFylkeByName(name) ==
  find("fylker", fylkerData,
       LAMBDA fylke : toLowerCase(fylke.f_name) = toLowerCase(name))

getKommuneByIdLoose(id) ==
  find("kommuner", kommunerData,
       LAMBDA kommune : stripLeadingZeros(kommune.k_id) = stripLeadingZeros(id))

getKommuneById(id) ==
  find("kommuner", kommunerData, LAMBDA kommune : kommune.k_id = id)

getKommuneByName(name) ==
  find("kommuner", kommunerData,
       LAMBDA kommune : \/ toLowerCase(kommune.k_name) = toLowerCase(name)
                        \/ toLowerCase(kommune.k_name_no) = toLowerCase(name))

\* the while loop of the subsequence fallback: the value of searchIndex
\* when the loop ends
RECURSIVE subsequenceLoop(_, _, _, _)
subsequenceLoop(searchId, kommuneId, searchIndex, kommuneIndex) ==
  IF searchIndex < Len(searchId) /\ kommuneIndex < Len(kommuneId)
  THEN subsequenceLoop(searchId, kommuneId,
                       IF searchId[searchIndex + 1] = kommuneId[kommuneIndex + 1]
                       THEN searchIndex + 1 ELSE searchIndex,
                       kommuneIndex + 1)
  ELSE searchIndex

isContiguous(searchId, kommuneId) == includes(kommuneId, searchId)

isSubsequence(searchId, kommuneId) ==
  subsequenceLoop(searchId, kommuneId, 0, 0) = Len(searchId)

\* shortId is a string (a sequence of characters) or a number
StrArg(s) == [isNum |-> FALSE, s |-> s, n |-> 0]
NumArg(n) == [isNum |-> TRUE, s |-> <<>>, n |-> n]
ToStr(shortId) == IF shortId.isNum THEN String(shortId.n) ELSE shortId.s

getKommuneByShortId(shortId) ==
  LET searchId == stripLeadingZeros(ToStr(shortId))
      paddedId == padStart(searchId, 4, "0")
      exactMatch == find("kommuner", kommunerData,
                         LAMBDA kommune : kommune.k_id = paddedId)
      noZerosMatch == find("kommuner", kommunerData,
                           LAMBDA kommune : stripLeadingZeros(kommune.k_id) = searchId)
  IN IF exactMatch # undefined THEN exactMatch
     ELSE IF noZerosMatch # undefined THEN noZerosMatch
     ELSE find("kommuner", kommunerData,
               LAMBDA kommune : isSubsequence(searchId, kommune.k_id))

getKommunerByLanguage(language) ==
  filter("kommuner", kommunerData,
         LAMBDA kommune : toLowerCase(kommune.k_language) = toLowerCase(language))

getKommunerInFylkeAnywhere(fylkeId) ==
  filter("kommuner", kommunerData, LAMBDA kommune : includes(kommune.k_id, fylkeId))

getKommunerInFylke(fylkeId) ==
  filter("kommuner", kommunerData, LAMBDA kommune : startsWith(kommune.k_id, fylkeId))

getKommunerByPopulationExclusive(min, max) ==
  filter("kommuner", kommunerData,
         LAMBDA kommune : /\ Leq(min, Num(kommune.k_population))
                          /\ Leq(Num(kommune.k_population), max)
                          /\ Num(kommune.k_population) # max)

getKommunerByPopulation(min, max) ==
  filter("kommuner", kommunerData,
         LAMBDA kommune : /\ Leq(min, Num(kommune.k_population))
                          /\ Leq(Num(kommune.k_population), max))

getKommunerByArea(min, max) ==
  filter("kommuner", kommunerData,
         LAMBDA kommune : /\ Leq(min, Num(kommune.k_area))
                          /\ Leq(Num(kommune.k_area), max))

searchKommunerByPrimaryName(nameFragment) ==
  LET searchTerm == toLowerCase(nameFragment)
  IN filter("kommuner", kommunerData,
            LAMBDA kommune : includes(toLowerCase(kommune.k_name), searchTerm))

searchKommunerByName(nameFragment) ==
  LET searchTerm == toLowerCase(nameFragment)
  IN filter("kommuner", kommunerData,
            LAMBDA kommune : \/ includes(toLowerCase(kommune.k_name), searchTerm)
                             \/ includes(toLowerCase(kommune.k_name_no), searchTerm))

searchFylkerByName(nameFragment) ==
  LET searchTerm == toLowerCase(nameFragment)
  IN filter("fylker", fylkerData,
            LAMBDA fylke : includes(toLowerCase(fylke.f_name), searchTerm))

(* ---------------------------- inputs ----------------------------------- *)
\* every string of at most MaxInputLen digits
DigitStrings == UNION { [1..k -> DigitChars] : k \in 0..MaxInputLen }

\* the number a non-empty digit string denotes
RECURSIVE Denotes(_)
Denotes(s) == IF s = <<>> THEN 0
              ELSE 10 * Denotes(SubSeq(s, 1, Len(s) - 1)) + DigitVal(s[Len(s)])

\* identifiers of the candidate records, whole and without leading zeros
KnownIds == { k.k_id : k \in KommunePool } \cup { f.f_id : f \in FylkePool }

IdInputs == KnownIds \cup { stripLeadingZeros(id) : id \in KnownIds }

ShortIdStrings == DigitStrings \cup IdInputs

NumberInputs == { Denotes(k.k_id) : k \in KommunePool }

NameInputs ==
  { <<>>, <<"o", "s", "l", "o">>, <<"O", "s", "l", "o">>, <<"O", "S">>,
    <<"S", "o", "l">>, <<"l">>, <<"x">> }

LanguageInputs == { Bokmaal, <<"N", "Y", "N", "O", "R", "S", "K">>, <<"x">> }

RangeInputs == { Num(v) : v \in 0..MaxNumber } \cup {Infinity}

(* ---------------------------- state ------------------------------------ *)
NoCall == [op |-> "none", s |-> <<>>, isNum |-> FALSE, n |-> 0,
           min |-> Num(0), max |-> Num(0)]
CallStr(op, s) == [NoCall EXCEPT !.op = op, !.s = s]
CallRange(op, min, max) == [NoCall EXCEPT !.op = op, !.min = min, !.max = max]
CallShortId(shortId) ==
  [NoCall EXCEPT !.op = "getKommuneByShortId", !.s = shortId.s,
                 !.isNum = shortId.isNum, !.n = shortId.n]

\* the module is loaded: both JSON files are parsed into the two tables
Init ==
  /\ fylkerData \in TablesOver(FylkePool, MaxFylker)
  /\ kommunerData \in TablesOver(KommunePool, MaxKommuner)
  /\ loadedFylker = fylkerData
  /\ loadedKommuner = kommunerData
  /\ call = NoCall
  /\ ret = undefined
  /\ writes = 0

\* a query reads the tables and assigns nothing
Returns(c, r) ==
  /\ call' = c
  /\ ret' = r
  /\ UNCHANGED <<fylkerData, kommunerData, loadedFylker, loadedKommuner, writes>>

\* a query that reverses kommunerData in place before returning
ReturnsReversing(c, r) ==
  /\ call' = c
  /\ ret' = r
  /\ kommunerData' = [i \in 1..Len(kommunerData) |->
                        kommunerData[Len(kommunerData) + 1 - i]]
  /\ UNCHANGED <<fylkerData, loadedFylker, loadedKommuner, writes>>

CallGetAllFylker == Returns(CallStr("getAllFylker", <<>>), getAllFylker)

CallGetAllKommunerReversing ==
  ReturnsReversing(CallStr("getAllKommuner", <<>>), getAllKommuner)

CallGetAllKommuner == Returns(CallStr("getAllKommuner", <<>>), getAllKommuner)

CallGetFylkeById ==
  \E id \in IdInputs : Returns(CallStr("getFylkeById", id), getFylkeById(id))

CallGetFylkeByName ==
  \E name \in NameInputs : Returns(CallStr("getFylkeByName", name), getFylkeByName(name))

CallGetKommuneById ==
  \E id \in IdInputs : Returns(CallStr("getKommuneById", id), getKommuneById(id))

CallGetKommuneByName ==
  \E name \in NameInputs :
    Returns(CallStr("getKommuneByName", name), getKommuneByName(name))

CallGetKommuneByShortId ==
  \E shortId \in { StrArg(s) : s \in ShortIdStrings } \cup { NumArg(n) : n \in NumberInputs } :
    Returns(CallShortId(shortId), getKommuneByShortId(shortId))

CallGetKommunerByLanguage ==
  \E language \in LanguageInputs :
    Returns(CallStr("getKommunerByLanguage", language), getKommunerByLanguage(language))

CallGetKommunerInFylke ==
  \E fylkeId \in IdInputs :
    Returns(CallStr("getKommunerInFylke", fylkeId), getKommunerInFylke(fylkeId))

CallGetKommunerByPopulation ==
  \E min \in RangeInputs, max \in RangeInputs :
    Returns(CallRange("getKommunerByPopulation", min, max),
            getKommunerByPopulation(min, max))

CallGetKommunerByArea ==
  \E min \in RangeInputs, max \in RangeInputs :
    Returns(CallRange("getKommunerByArea", min, max), getKommunerByArea(min, max))

CallSearchKommunerByName ==
  \E nameFragment \in NameInputs :
    Returns(CallStr("searchKommunerByName", nameFragment),
            searchKommunerByName(nameFragment))

CallSearchFylkerByName ==
  \E nameFragment \in NameInputs :
    Returns(CallStr("searchFylkerByName", nameFragment),
            searchFylkerByName(nameFragment))

Next ==
  \/ CallGetAllFylker
  \/ CallGetAllKommuner
  \/ CallGetFylkeById
  \/ CallGetFylkeByName
  \/ CallGetKommuneById
  \/ CallGetKommuneByName
  \/ CallGetKommuneByShortId
  \/ CallGetKommunerByLanguage
  \/ CallGetKommunerInFylke
  \/ CallGetKommunerByPopulation
  \/ CallGetKommunerByArea
  \/ CallSearchKommunerByName
  \/ CallSearchFylkerByName

Spec == Init /\ [][Next]_vars

(* ---------------------------- the caller ------------------------------- *)
\* The caller holds the value the last query returned.  A record it holds is
\* the object stored in the table, so an assignment to one of its fields is
\* an assignment to the table's record; an array it holds is its own.
CallerWritesField ==
  /\ writes < MaxWrites
  /\ ret.kind \in {"record", "array"}
  /\ \E p \in 1..Len(ret.refs) :
       LET i == ret.refs[p] IN
         IF ret.table = "kommuner"
         THEN /\ kommunerData' = [kommunerData EXCEPT ![i].k_population = @ + 1]
              /\ UNCHANGED fylkerData
         ELSE /\ fylkerData' = [fylkerData EXCEPT ![i].f_name = <<"x">>]
              /\ UNCHANGED kommunerData
  /\ writes' = writes + 1
  /\ UNCHANGED <<loadedFylker, loadedKommuner, call, ret>>

CallerPushes ==
  /\ writes < MaxWrites
  /\ ret.kind = "array"
  /\ Len(ret.refs) > 0
  /\ ret' = [ret EXCEPT !.refs = Append(@, @[1])]
  /\ writes' = writes + 1
  /\ UNCHANGED <<fylkerData, kommunerData, loadedFylker, loadedKommuner, call>>

CallerPops ==
  /\ writes < MaxWrites
  /\ ret.kind = "array"
  /\ Len(ret.refs) > 0
  /\ ret' = [ret EXCEPT !.refs = SubSeq(@, 1, Len(@) - 1)]
  /\ writes' = writes + 1
  /\ UNCHANGED <<fylkerData, kommunerData, loadedFylker, loadedKommuner, call>>

NextCaller ==
  \/ Next
  \/ CallerWritesField
  \/ CallerPushes
  \/ CallerPops

SpecCaller == Init /\ [][NextCaller]_vars

(* ---------------------------- properties ------------------------------- *)
FIdx == 1..Len(fylkerData)
KIdx == 1..Len(kommunerData)

s0301 == <<"0", "3", "0", "1">>
s3101 == <<"3", "1", "0", "1">>
s0031 == <<"0", "0", "3", "1">>
s1131 == <<"1", "1", "3", "1">>
s301 == <<"3", "0", "1">>
s31 == <<"3", "1">>

Least(S) == CHOOSE i \in S : \A j \in S : i <= j

\* the first record of table t whose index is in S, or the not-found value
FirstOf(t, S) == IF S = {} THEN undefined ELSE RecordRef(t, Least(S))

\* r is a new array holding exactly the records of table t with index in S,
\* in source order
ExactlyInOrder(r, t, S) ==
  /\ r.kind = "array"
  /\ r.table = t
  /\ \A p \in 1..Len(r.refs) : r.refs[p] \in S
  /\ \A i \in S : \E p \in 1..Len(r.refs) : r.refs[p] = i
  /\ \A p, q \in 1..Len(r.refs) : p < q => r.refs[p] < r.refs[q]

TablesAsLoaded == fylkerData = loadedFylker /\ kommunerData = loadedKommuner

EqIgnoringCase(a, b) ==
  Len(a) = Len(b) /\ \A j \in 1..Len(a) : LowerChar(a[j]) = LowerChar(b[j])

ContainsIgnoringCase(name, frag) ==
  \E k \in 1..(Len(name) + 1) :
    \A j \in 1..Len(frag) :
      k + j - 1 <= Len(name) /\ LowerChar(name[k + j - 1]) = LowerChar(frag[j])

HasPrefix(id, p) == Len(p) <= Len(id) /\ \A j \in 1..Len(p) : id[j] = p[j]

\* v lies in the closed range [lo, hi]; hi may be Infinity
Within(v, lo, hi) == (~lo.inf /\ lo.v <= v) /\ (hi.inf \/ v <= hi.v)

\* t is id with its leading zeros removed
IsZeroStripped(t, id) ==
  \E z \in 0..Len(id) :
    /\ \A j \in 1..z : id[j] = "0"
    /\ z < Len(id) => id[z + 1] # "0"
    /\ t = SubSeq(id, z + 1, Len(id))

\* the characters of t occur in s in order
RECURSIVE InOrderWithin(_, _)
InOrderWithin(t, s) ==
  IF t = <<>> THEN TRUE
  ELSE IF s = <<>> THEN FALSE
  ELSE IF Head(t) = Head(s) THEN InOrderWithin(Tail(t), Tail(s))
  ELSE InOrderWithin(t, Tail(s))

ZeroStrippedOf(id) == CHOOSE t \in { SubSeq(id, z + 1, Len(id)) : z \in 0..Len(id) } :
                        IsZeroStripped(t, id)

LeftPadded4(t) == IF Len(t) >= 4 THEN t
                  ELSE [j \in 1..(4 - Len(t)) |-> "0"] \o t

\* the three-tier reference of the short-identifier lookup, on the input as given
ThreeTier(input) ==
  LET exact == { i \in KIdx : kommunerData[i].k_id = LeftPadded4(input) }
      noZeros == { i \in KIdx :
                     ZeroStrippedOf(kommunerData[i].k_id) = ZeroStrippedOf(input) }
      inOrder == { i \in KIdx : InOrderWithin(input, kommunerData[i].k_id) }
  IN IF exact # {} THEN FirstOf("kommuner", exact)
     ELSE IF noZeros # {} THEN FirstOf("kommuner", noZeros)
     ELSE FirstOf("kommuner", inOrder)

\* C1: after the caller changed a field of a returned record or added or
\* removed elements of a returned array, the loaded county and municipality
\* tables are unchanged.
C1_CallerIsolation == writes > 0 => TablesAsLoaded

\* C2: getKommuneByShortId returns, for every input and table, what the
\* three-tier reference returns (padded exact match, else zero-stripped match,
\* else the first record containing the input's digits in order, else not
\* found), inputs that are empty or all zeros included.
C2_ThreeTierReference ==
  call.op = "getKommuneByShortId" =>
    ret = ThreeTier(IF call.isNum THEN String(call.n) ELSE call.s)

\* C3 as stated: with "0301" in the table, getKommuneByShortId("301") and
\* getKommuneByShortId("31") both return the "0301" record, whatever the rest
\* of the table holds and in whatever order.
C3_Original ==
  \A i \in KIdx :
    (/\ kommunerData[i].k_id = s0301
     /\ call.op = "getKommuneByShortId"
     /\ ~call.isNum
     /\ call.s \in {s301, s31})
    => ret = RecordRef("kommuner", i)

Has31InOrder(id) == \E a, b \in 1..Len(id) : a < b /\ id[a] = "3" /\ id[b] = "1"

\* C3 amended: with "0301" in the table, getKommuneByShortId("301") returns
\* the "0301" record for every content and order of the rest of the table;
\* getKommuneByShortId("31") returns the "0031" record when the table has
\* one, and otherwise the first record in source order whose identifier has
\* 3 and 1 in order, which is the "0301" record exactly when no such record
\* precedes it.
C3_Amended ==
  \A i \in KIdx :
    (/\ kommunerData[i].k_id = s0301
     /\ call.op = "getKommuneByShortId"
     /\ ~call.isNum)
    => /\ call.s = s301 => ret = RecordRef("kommuner", i)
       /\ call.s = s31 =>
            IF \E j \in KIdx : kommunerData[j].k_id = s0031
            THEN ret = FirstOf("kommuner", { j \in KIdx : kommunerData[j].k_id = s0031 })
            ELSE /\ ret = FirstOf("kommuner",
                                  { j \in KIdx : Has31InOrder(kommunerData[j].k_id) })
                 /\ (ret = RecordRef("kommuner", i)) <=>
                      (\A j \in 1..(i - 1) : ~Has31InOrder(kommunerData[j].k_id))

C3_Witness ==
  /\ call.op = "getKommuneByShortId" /\ ~call.isNum /\ call.s = s31
  /\ Len(kommunerData) = 2
  /\ kommunerData[1].k_id = s0301 /\ kommunerData[2].k_id = s3101
  /\ ret = RecordRef("kommuner", 1)

\* C4: getFylkeById(c.f_id) returns c for every county c and
\* getKommuneById(m.k_id) returns m for every municipality m; a string that
\* is not the identifier of a loaded record (an identifier without its
\* leading zero included) gives undefined.
C4_ExactLookupById ==
  /\ call.op = "getFylkeById" =>
       /\ \A i \in FIdx : fylkerData[i].f_id = call.s => ret = RecordRef("fylker", i)
       /\ (\A i \in FIdx : fylkerData[i].f_id # call.s) => ret = undefined
  /\ call.op = "getKommuneById" =>
       /\ \A i \in KIdx : kommunerData[i].k_id = call.s => ret = RecordRef("kommuner", i)
       /\ (\A i \in KIdx : kommunerData[i].k_id # call.s) => ret = undefined

C4_Witness ==
  /\ call.op = "getKommuneById" /\ call.s = s301
  /\ \E i \in KIdx : kommunerData[i].k_id = s0301
  /\ ret = undefined

\* C5: getKommunerByPopulation(min, max) returns in source order exactly the
\* municipalities with min <= k_population <= max, both bounds inclusive and
\* max possibly Infinity: (0, Infinity) gives every municipality, (P+1,
\* Infinity) with P the largest population gives none, min > max gives none;
\* getKommunerByArea does the same on k_area.
C5_RangeFilters ==
  /\ call.op = "getKommunerByPopulation" =>
       /\ ExactlyInOrder(ret, "kommuner",
            { i \in KIdx : Within(kommunerData[i].k_population, call.min, call.max) })
       /\ (call.min = Num(0) /\ call.max = Infinity) => ret = getAllKommuner
       /\ (/\ call.max = Infinity /\ ~call.min.inf
           /\ \A i \in KIdx : kommunerData[i].k_population < call.min.v)
          => ret.refs = <<>>
       /\ (~call.min.inf /\ ~call.max.inf /\ call.min.v > call.max.v) => ret.refs = <<>>
       /\ (call.min.inf /\ ~call.max.inf) => ret.refs = <<>>
  /\ call.op = "getKommunerByArea" =>
       /\ ExactlyInOrder(ret, "kommuner",
            { i \in KIdx : Within(kommunerData[i].k_area, call.min, call.max) })
       /\ (call.min = Num(0) /\ call.max = Infinity) => ret = getAllKommuner
       /\ (~call.min.inf /\ ~call.max.inf /\ call.min.v > call.max.v) => ret.refs = <<>>

C5_Witness ==
  /\ call.op = "getKommunerByPopulation"
  /\ call.min = Num(1) /\ call.max = Num(1)
  /\ Len(kommunerData) = 2
  /\ kommunerData[1].k_population = 0 /\ kommunerData[2].k_population = 1
  /\ ret.refs = <<2>>

C7_SearchByName ==
  call.op = "searchKommunerByName" =>
    /\ ExactlyInOrder(ret, "kommuner",
         { i \in KIdx : \/ ContainsIgnoringCase(kommunerData[i].k_name, call.s)
                        \/ ContainsIgnoringCase(kommunerData[i].k_name_no, call.s) })
    /\ call.s = <<>> => ret = getAllKommuner

C7_Witness ==
  /\ call.op = "searchKommunerByName" /\ call.s = <<"S", "o", "l">>
  /\ Len(kommunerData) = 2
  /\ kommunerData[1].k_id = s0031 /\ kommunerData[2].k_id = s1131
  /\ ret.refs = <<1, 2>>

\* C8: getFylkeByName(n) returns the first county whose name equals n
\* ignoring case, getKommuneByName(n) the first municipality whose k_name or
\* k_name_no equals n ignoring case, so inputs differing only in letter case
\* give the same result; a name matching no record gives undefined.
C8_LookupByNameIgnoresCase ==
  /\ call.op = "getFylkeByName" =>
       ret = FirstOf("fylker",
                     { i \in FIdx : EqIgnoringCase(fylkerData[i].f_name, call.s) })
  /\ call.op = "getKommuneByName" =>
       ret = FirstOf("kommuner",
                     { i \in KIdx : \/ EqIgnoringCase(kommunerData[i].k_name, call.s)
                                    \/ EqIgnoringCase(kommunerData[i].k_name_no, call.s) })

C8_Witness ==
  /\ call.op = "getFylkeByName" /\ call.s = <<"o", "s", "l", "o">>
  /\ Len(fylkerData) = 2
  /\ fylkerData[1].f_name = <<"O", "S", "L", "O">>
  /\ ret = RecordRef("fylker", 1)

\* the value the query named by c returns in the current state
Again(c) ==
  CASE c.op = "getAllFylker" -> getAllFylker
    [] c.op = "getAllKommuner" -> getAllKommuner
    [] c.op = "getFylkeById" -> getFylkeById(c.s)
    [] c.op = "getFylkeByName" -> getFylkeByName(c.s)
    [] c.op = "getKommuneById" -> getKommuneById(c.s)
    [] c.op = "getKommuneByName" -> getKommuneByName(c.s)
    [] c.op = "getKommuneByShortId" ->
         getKommuneByShortId([isNum |-> c.isNum, s |-> c.s, n |-> c.n])
    [] c.op = "getKommunerByLanguage" -> getKommunerByLanguage(c.s)
    [] c.op = "getKommunerInFylke" -> getKommunerInFylke(c.s)
    [] c.op = "getKommunerByPopulation" -> getKommunerByPopulation(c.min, c.max)
    [] c.op = "getKommunerByArea" -> getKommunerByArea(c.min, c.max)
    [] c.op = "searchKommunerByName" -> searchKommunerByName(c.s)
    [] c.op = "searchFylkerByName" -> searchFylkerByName(c.s)
    [] OTHER -> undefined

\* C9: in every state reached by query calls the tables are the ones that
\* were loaded, and the query just answered, called again with the same
\* argument, returns a result equal to the one it returned.
C9_Idempotent == TablesAsLoaded /\ ret = Again(call)

C9_Witness ==
  /\ call.op = "getAllKommuner"
  /\ Len(kommunerData) = 2
  /\ ret.refs = <<1, 2>>
  /\ kommunerData[1].k_id = s3101 /\ kommunerData[2].k_id = s0301

\* C10: in a table of unique 4-digit identifiers other than "0000",
\* getKommuneByShortId of m.k_id, of m.k_id without its leading zeros and
\* of the number m.k_id denotes all return m, whatever precedes m.
C10_ShortIdRoundTrip ==
  (/\ call.op = "getKommuneByShortId"
   /\ \A j \in KIdx : kommunerData[j].k_id # <<"0", "0", "0", "0">>)
  => \A i \in KIdx :
       LET id == kommunerData[i].k_id IN
         (\/ ~call.isNum /\ call.s = id
          \/ ~call.isNum /\ IsZeroStripped(call.s, id)
          \/ call.isNum /\ call.n = Denotes(id))
         => ret = RecordRef("kommuner", i)

C10_Witness ==
  /\ call.op = "getKommuneByShortId" /\ ~call.isNum /\ call.s = s301
  /\ Len(kommunerData) = 2
  /\ kommunerData[1].k_id = s3101 /\ kommunerData[2].k_id = s0301
  /\ ret = RecordRef("kommuner", 2)

====
